---- MODULE Spec2Model ----
(***************************************************************************)
(* A model of the MidEx Cup leaderboard script (src/app.py): the position  *)
(* parser, the points lookup, the event and entrants loaders, the          *)
(* aggregator, and the module-level pipeline that numbers the leaderboard. *)
(*                                                                         *)
(* A Python str is a sequence of one-character strings; None is the empty  *)
(* set and an int result n is {n} where a function returns Optional[int].  *)
(***************************************************************************)
EXTENDS Integers, Sequences, FiniteSets

VARIABLES
    pc,             \* position of the script / of the function under check
    pos_str,        \* parse_position: the raw cell
    parsed,         \* parse_position: the value returned
    event_type,     \* calculate_points: the tier asked for
    position,       \* calculate_points: the rank asked for
    pts,            \* calculate_points: the value returned
    data,           \* load_event_results: sheet.get_all_values()
    df,             \* load_event_results: the DataFrame returned
    col,            \* load_eligible_player_names: sheet.col_values(1)[1:]
    entrants_list,  \* line 267
    entries,        \* line 267
    prize_pool,     \* line 267
    failed,         \* the events whose load_event_results raised
    event_data,     \* line 269
    leaderboard_df  \* lines 270-271

vars == <<pc, pos_str, parsed, event_type, position, pts, data, df, col,
          entrants_list, entries, prize_pool, failed, event_data, leaderboard_df>>

----------------------------------------------------------------------------
(* Bounds of the model.                                                    *)

\* longest raw position cell enumerated for parse_position
MaxLen == 3
\* ranks -MaxRank..MaxRank are asked of calculate_points (the tables hold 16)
MaxRank == 18
\* rows of one sheet handed to load_event_results on its own
MaxGridRows == 2
\* cells of the entrants column
MaxEntrants == 3
\* events of EVENT_TABS (in order) that have been played
MaxEvents == 2
\* result rows over all the played events' sheets
MaxRows == 2

----------------------------------------------------------------------------
(* Configuration (lines 9-31).                                             *)

EVENT_TABS ==
    << [name |-> "May Stableford",              label |-> "Standard Event"],
       [name |-> "Rover Medal",                 label |-> "Major"],
       [name |-> "June Medal",                  label |-> "Elevated Event"],
       [name |-> "Stableford Handicap Trophy",  label |-> "Major"],
       [name |-> "Club Championships (r1)",     label |-> "Playoff Event"],
       [name |-> "Club Championships (r2)",     label |-> "Playoff Event"],
       [name |-> "July Stableford",             label |-> "Standard Event"],
       [name |-> "August Stableford (Red Tee)", label |-> "Standard Event"],
       [name |-> "August Medal",                label |-> "Elevated Event"],
       [name |-> "August Stableford",           label |-> "Standard Event"],
       [name |-> "Mid Sussex Masters",          label |-> "Major"],
       [name |-> "September Stableford",        label |-> "Standard Event"] >>

EventNames == {EVENT_TABS[i].name : i \in DOMAIN EVENT_TABS}

POINTS_TABLE ==
    [t \in {"Standard Event", "Elevated Event", "Major", "Playoff Event"} |->
        CASE t = "Standard Event" ->
               <<300, 180, 114, 81, 66, 60, 54, 51, 48, 45, 42, 39, 36, 34, 33, 32>>
          [] t = "Elevated Event" ->
               <<550, 330, 209, 149, 121, 110, 99, 94, 88, 83, 77, 72, 66, 63, 61, 58>>
          [] t = "Major" ->
               <<750, 450, 285, 203, 165, 150, 135, 128, 120, 113, 105, 98, 90, 86, 83, 80>>
          [] t = "Playoff Event" ->
               <<1200, 720, 456, 324, 264, 240, 216, 204, 192, 180, 168, 156, 144, 137, 132, 127>>]

\* "Assuming 20 pounds entry fee per player" (line 86)
ENTRY_FEE == 20

----------------------------------------------------------------------------
(* Python values.                                                          *)

None == {}
Some(n) == {n}

\* a raw cell, tagged with its type: a str, or None
Str(s) == [t |-> "str", v |-> s]
NoCell == [t |-> "none", v |-> 0]

\* str.strip(): whitespace removed from both ends
IsSpace(c) == c \in {" ", "\t", "\n", "\r"}

RECURSIVE lstrip(_)
lstrip(s) == IF s # <<>> /\ IsSpace(Head(s)) THEN lstrip(Tail(s)) ELSE s

RECURSIVE rstrip(_)
rstrip(s) ==
    IF s # <<>> /\ IsSpace(s[Len(s)]) THEN rstrip(SubSeq(s, 1, Len(s) - 1)) ELSE s

strip(s) == rstrip(lstrip(s))

\* the characters \d matches, and int() of one
Digits == <<"0", "1", "2", "3", "4", "5", "6", "7", "8", "9">>
IsDigit(c) == \E i \in DOMAIN Digits : Digits[i] = c
DigitVal(c) == (CHOOSE i \in DOMAIN Digits : Digits[i] = c) - 1

\* re.match(r"^(\d+)", s).group(1): the longest run of digits s starts with
\* (<<>> when the match fails)
RECURSIVE DigitRun(_)
DigitRun(s) ==
    IF s # <<>> /\ IsDigit(Head(s)) THEN <<Head(s)>> \o DigitRun(Tail(s)) ELSE <<>>

\* int() of a run of digits
RECURSIVE int(_)
int(run) ==
    IF run = <<>> THEN 0
    ELSE 10 * int(SubSeq(run, 1, Len(run) - 1)) + DigitVal(run[Len(run)])

----------------------------------------------------------------------------
(* parse_position (lines 48-53).                                           *)

parse_position(cell) ==
    IF cell.t # "str" THEN None
    ELSE LET run == DigitRun(strip(cell.v))
         IN  IF run # <<>> THEN Some(int(run)) ELSE None

----------------------------------------------------------------------------
(* calculate_points (lines 117-119).                                       *)

\* the lookup indexing the table from rank 0
calculate_points_offbyone(label, rank) ==
    LET table == IF label \in DOMAIN POINTS_TABLE THEN POINTS_TABLE[label] ELSE <<>>
    IN  IF 0 <= rank /\ rank < Len(table) THEN table[rank + 1] ELSE 0

calculate_points(label, rank) ==
    LET table == IF label \in DOMAIN POINTS_TABLE THEN POINTS_TABLE[label] ELSE <<>>
    IN  IF 1 <= rank /\ rank <= Len(table) THEN table[rank] ELSE 0

----------------------------------------------------------------------------
(* load_event_results (lines 90-115).  data is sheet.get_all_values(): a   *)
(* list of rows, each a list of str cells.  The DataFrame returned is the  *)
(* sequence of its rows, columns Position, Name, Score.                    *)

\* lines 102-109: the rows that conform, in order; row[3] of a row of fewer
\* than four cells raises IndexError and the row is skipped
RECURSIVE conforming_results(_)
conforming_results(rows) ==
    IF rows = <<>> THEN <<>>
    ELSE LET row == Head(rows)
         IN  IF Len(row) >= 4
             THEN << [Position |-> strip(row[2]), Name |-> strip(row[1]),
                      Score |-> strip(row[4])] >> \o conforming_results(Tail(rows))
             ELSE conforming_results(Tail(rows))

\* the loader without the four-column guard of line 97, reading a missing
\* score as ''
RECURSIVE two_column_results(_)
two_column_results(rows) ==
    IF rows = <<>> THEN <<>>
    ELSE LET row == Head(rows)
         IN  IF Len(row) >= 2
             THEN << [Position |-> strip(row[2]), Name |-> strip(row[1]),
                      Score |-> IF Len(row) >= 4 THEN strip(row[4]) ELSE <<>>] >>
                  \o two_column_results(Tail(rows))
             ELSE two_column_results(Tail(rows))

load_event_results_anywidth(grid) == two_column_results(grid)

load_event_results(grid) ==
    IF grid = <<>> \/ Len(grid[1]) < 4 THEN <<>>
    ELSE conforming_results(grid)

----------------------------------------------------------------------------
(* load_eligible_player_names (lines 76-88).                               *)

\* pd.Series(data).dropna().unique().tolist(): first occurrences, in order
\* (col_values gives str cells only, so dropna removes nothing)
RECURSIVE unique(_)
unique(s) ==
    IF s = <<>> THEN <<>>
    ELSE LET init == unique(SubSeq(s, 1, Len(s) - 1))
             last == s[Len(s)]
         IN  IF \E i \in DOMAIN init : init[i] = last THEN init ELSE Append(init, last)

load_eligible_player_names(column) ==
    LET eligible_names == unique(column)
        total_entries == Len(eligible_names)
        total_prize_fund == total_entries * ENTRY_FEE
    IN  [names |-> [i \in DOMAIN eligible_names |-> strip(eligible_names[i])],
         total_entries |-> total_entries,
         total_prize_fund |-> total_prize_fund]

----------------------------------------------------------------------------
(* load_all_event_data (lines 55-65).  source gives, for each sheet name,  *)
(* what opening and reading the worksheet does: raise, or return a grid.   *)
(* The dict returned is a function on the sheet names it holds.            *)

EmptyFrame == <<>>

\* the batch loop dropping a failed event instead of storing an empty frame
load_all_event_data_dropfailed(source) ==
    [sheet_name \in {n \in EventNames : ~source[n].raises} |->
        load_event_results(source[sheet_name].grid)]

load_all_event_data(source) ==
    [sheet_name \in EventNames |->
        IF source[sheet_name].raises
        THEN EmptyFrame
        ELSE load_event_results(source[sheet_name].grid)]

----------------------------------------------------------------------------
(* aggregate_points (lines 121-148).  player_points and event_breakdown    *)
(* are one insertion-ordered list of [Name, Points, Events].               *)

\* lines 138-139
credit(players, name, sheet_name, p) ==
    IF \E i \in DOMAIN players : players[i].Name = name
    THEN [i \in DOMAIN players |->
            IF players[i].Name = name
            THEN [players[i] EXCEPT !.Points = @ + p,
                                    !.Events = Append(@, <<sheet_name, p>>)]
            ELSE players[i]]
    ELSE Append(players, [Name |-> name, Points |-> p, Events |-> << <<sheet_name, p>> >>])

\* lines 130-139: the rows of one event's frame
RECURSIVE score_rows(_, _, _, _)
score_rows(players, rows, sheet_name, label) ==
    IF rows = <<>> THEN players
    ELSE LET row == Head(rows)
             name == strip(row.Name)
             pos == parse_position(Str(row.Position))
         IN  IF pos = None
             THEN score_rows(players, Tail(rows), sheet_name, label)
             ELSE LET rank == CHOOSE n \in pos : TRUE
                  IN  score_rows(credit(players, name, sheet_name,
                                        calculate_points(label, rank)),
                                 Tail(rows), sheet_name, label)

\* lines 125-139: the events of EVENT_TABS from the i-th on
RECURSIVE score_events(_, _, _)
score_events(players, data_by_event, i) ==
    IF i > Len(EVENT_TABS) THEN players
    ELSE LET sheet_name == EVENT_TABS[i].name
             frame == IF sheet_name \in DOMAIN data_by_event
                      THEN data_by_event[sheet_name] ELSE EmptyFrame
         IN  IF frame = EmptyFrame
             THEN score_events(players, data_by_event, i + 1)
             ELSE score_events(score_rows(players, frame, sheet_name, EVENT_TABS[i].label),
                               data_by_event, i + 1)

accumulate(data_by_event) == score_events(<<>>, data_by_event, 1)

InList(name, list) == \E i \in DOMAIN list : list[i] = name

\* the filter keeping the players who scored nothing
eligible_rows_keepzero(players, list) ==
    LET kept == SelectSeq(players, LAMBDA p : InList(p.Name, list))
    IN  [i \in DOMAIN kept |->
            [index |-> i - 1, Name |-> kept[i].Name, Points |-> kept[i].Points,
             Events |-> kept[i].Events]]

\* lines 144-147: pd.DataFrame of the rows that pass, indexed from 0
eligible_rows(players, list) ==
    LET kept == SelectSeq(players, LAMBDA p : InList(p.Name, list) /\ p.Points > 0)
    IN  [i \in DOMAIN kept |->
            [index |-> i - 1, Name |-> kept[i].Name, Points |-> kept[i].Points,
             Events |-> kept[i].Events]]

Orderings(n) == {f \in [1..n -> 1..n] : \A i, j \in 1..n : f[i] = f[j] => i = j}

\* the frame left in the order the dict was filled
sort_values_unsorted(frame) == {frame}

\* sort_values("Points", ascending=False): kind defaults to quicksort, which
\* is not stable, so rows of equal Points come out in an order the sort
\* picks; each row keeps its index label
sort_values(frame) ==
    { [i \in DOMAIN frame |-> frame[f[i]]] :
          f \in {g \in Orderings(Len(frame)) :
                    \A i \in 1..(Len(frame) - 1) :
                        frame[g[i]].Points >= frame[g[i + 1]].Points} }

\* reset_index(drop=True)
reset_index(frame) == [i \in DOMAIN frame |-> [frame[i] EXCEPT !.index = i - 1]]

\* every outcome of the call: a KeyError (sort_values on a frame built from
\* no rows, which has no Points column) or a frame returned
aggregate_points(data_by_event, list) ==
    LET players == accumulate(data_by_event)
        rows == eligible_rows(players, list)
    IN  IF players = <<>> THEN {[raised |-> FALSE, frame |-> EmptyFrame]}
        ELSE IF rows = <<>> THEN {[raised |-> TRUE, frame |-> EmptyFrame]}
        ELSE {[raised |-> FALSE, frame |-> reset_index(sorted)] : sorted \in sort_values(rows)}

\* line 271: leaderboard_df["Position"] = leaderboard_df.index + 1
with_positions(frame) ==
    [i \in DOMAIN frame |->
        [index |-> frame[i].index, Name |-> frame[i].Name, Points |-> frame[i].Points,
         Events |-> frame[i].Events, Position |-> frame[i].index + 1]]

----------------------------------------------------------------------------
(* Values the variables of a function not under check rest at.             *)

Idle == [pos_str |-> NoCell, parsed |-> None, event_type |-> "", position |-> 0,
         pts |-> 0, data |-> <<>>, df |-> <<>>, col |-> <<>>,
         entrants_list |-> <<>>, entries |-> 0, prize_pool |-> 0,
         failed |-> {}, event_data |-> <<>>, leaderboard_df |-> <<>>]

\* every str of at most n characters of the alphabet
RECURSIVE StrsUpTo(_, _)
StrsUpTo(alphabet, n) ==
    IF n = 0 THEN {<<>>}
    ELSE LET shorter == StrsUpTo(alphabet, n - 1)
         IN  shorter \cup {<<c>> \o s : c \in alphabet, s \in {x \in shorter : Len(x) = n - 1}}

----------------------------------------------------------------------------
(* parse_position applied to one raw cell.                                 *)

ParseAlphabet == {"0", "1", " ", "t"}

\* the cells of the docstring and of the sheets: '1st', '10th', '3', 'DNF'
ParseExamples == { <<"1", "s", "t">>, <<"1", "0", "t", "h">>, <<"3">>, <<"D", "N", "F">>,
                   <<"2", "n", "d">>, <<" ", "1", "2", " ">> }

\* what a frame built from get_all_values holds in its Position column, a
\* str, and the default of row.get("Position", None)
Cells == {Str(s) : s \in StrsUpTo(ParseAlphabet, MaxLen) \cup ParseExamples} \cup {NoCell}

InitParse ==
    /\ pc = "parse_call"
    /\ pos_str \in Cells
    /\ parsed = None
    /\ event_type = Idle.event_type /\ position = Idle.position /\ pts = Idle.pts
    /\ data = Idle.data /\ df = Idle.df /\ col = Idle.col
    /\ entrants_list = Idle.entrants_list /\ entries = Idle.entries
    /\ prize_pool = Idle.prize_pool /\ failed = Idle.failed
    /\ event_data = Idle.event_data /\ leaderboard_df = Idle.leaderboard_df

ParsePosition ==
    /\ pc = "parse_call"
    /\ parsed' = parse_position(pos_str)
    /\ pc' = "parse_return"
    /\ UNCHANGED <<pos_str, event_type, position, pts, data, df, col, entrants_list,
                   entries, prize_pool, failed, event_data, leaderboard_df>>

NextParse == ParsePosition

SpecParse == InitParse /\ [][NextParse]_vars

----------------------------------------------------------------------------
(* calculate_points applied to one tier and one rank.                      *)

Tiers == DOMAIN POINTS_TABLE \cup {"Unknown Event"}
Ranks == -MaxRank..MaxRank

InitPoints ==
    /\ pc = "points_call"
    /\ event_type \in Tiers
    /\ position \in Ranks
    /\ pts = Idle.pts
    /\ pos_str = Idle.pos_str /\ parsed = Idle.parsed
    /\ data = Idle.data /\ df = Idle.df /\ col = Idle.col
    /\ entrants_list = Idle.entrants_list /\ entries = Idle.entries
    /\ prize_pool = Idle.prize_pool /\ failed = Idle.failed
    /\ event_data = Idle.event_data /\ leaderboard_df = Idle.leaderboard_df

CalculatePoints ==
    /\ pc = "points_call"
    /\ pts' = calculate_points(event_type, position)
    /\ pc' = "points_return"
    /\ UNCHANGED <<pos_str, parsed, event_type, position, data, df, col, entrants_list,
                   entries, prize_pool, failed, event_data, leaderboard_df>>

NextPoints == CalculatePoints

SpecPoints == InitPoints /\ [][NextPoints]_vars

----------------------------------------------------------------------------
(* C2: for every tier T and integer rank r, calculate_points(T, r) is      *)
(* POINTS_TABLE[T][r-1] (0-based) when T is a known tier and               *)
(* 1 <= r <= len(POINTS_TABLE[T]), and 0 otherwise; an unknown tier gives 0 *)
(* for every rank.                                                         *)
C2_PointsLookup ==
    pc = "points_return" =>
        /\ (event_type \in DOMAIN POINTS_TABLE /\ position >= 1
              /\ position <= Len(POINTS_TABLE[event_type]))
             => pts = POINTS_TABLE[event_type][position]
        /\ (event_type \in DOMAIN POINTS_TABLE
              /\ (position < 1 \/ position > Len(POINTS_TABLE[event_type])))
             => pts = 0
        /\ event_type \notin DOMAIN POINTS_TABLE => pts = 0

\* a Major's 16th place has been looked up (its last paying rank)
C2_Witness ==
    /\ pc = "points_return"
    /\ event_type = "Major" /\ position = 16 /\ pts = 80

----------------------------------------------------------------------------
(* C7: parse_position returns no value or an integer >= 1: an integral     *)
(* number >= 1 is returned as itself, a string whose trimmed form starts   *)
(* with a run of digits gives the run's value when that is >= 1, and every *)
(* other input gives no value.                                             *)
C7_ParseContract ==
    pc = "parse_return" =>
        /\ \A n \in parsed : n >= 1
        /\ (pos_str.t = "int" /\ pos_str.v >= 1) => parsed = Some(pos_str.v)
        /\ (pos_str.t = "int" /\ pos_str.v < 1) => parsed = None
        /\ pos_str.t = "none" => parsed = None
        /\ pos_str.t = "str" =>
             LET run == DigitRun(strip(pos_str.v))
             IN  parsed = IF run # <<>> /\ int(run) >= 1 THEN Some(int(run)) ELSE None

----------------------------------------------------------------------------
(* load_event_results applied to one sheet, in either observed layout.     *)

\* every sequence of at most n elements of S
RECURSIVE SeqsUpTo(_, _)
SeqsUpTo(S, n) ==
    IF n = 0 THEN {<<>>}
    ELSE LET shorter == SeqsUpTo(S, n - 1)
         IN  shorter \cup {Append(s, x) : s \in {y \in shorter : Len(y) = n - 1}, x \in S}

RawNames == { <<"A">>, <<" ", "B", " ">>, <<>> }
RawPositions == { <<"1", "s", "t">>, <<"D", "N", "F">> }

\* a row [name, position] and a row [name, position, handicap, score]
TwoColumnRows == {<<n, p>> : n \in RawNames, p \in RawPositions}
FourColumnRows == {<<n, p, <<"1", "2">>, <<"4", "0", " ">> >> : n \in RawNames, p \in RawPositions}

Grids == SeqsUpTo(TwoColumnRows, MaxGridRows) \cup SeqsUpTo(FourColumnRows, MaxGridRows)

InitLoad ==
    /\ pc = "load_call"
    /\ data \in Grids
    /\ df = <<>>
    /\ pos_str = Idle.pos_str /\ parsed = Idle.parsed
    /\ event_type = Idle.event_type /\ position = Idle.position /\ pts = Idle.pts
    /\ col = Idle.col
    /\ entrants_list = Idle.entrants_list /\ entries = Idle.entries
    /\ prize_pool = Idle.prize_pool /\ failed = Idle.failed
    /\ event_data = Idle.event_data /\ leaderboard_df = Idle.leaderboard_df

LoadEventResults ==
    /\ pc = "load_call"
    /\ df' = load_event_results(data)
    /\ pc' = "load_return"
    /\ UNCHANGED <<pos_str, parsed, event_type, position, pts, data, col, entrants_list,
                   entries, prize_pool, failed, event_data, leaderboard_df>>

NextLoad == LoadEventResults

SpecLoad == InitLoad /\ [][NextLoad]_vars

----------------------------------------------------------------------------
(* load_eligible_player_names applied to one entrants column.              *)

EntrantCells == { <<"A">>, <<"A", " ">>, <<"B">>, <<>> }

InitEntrants ==
    /\ pc = "eligible_call"
    /\ col \in SeqsUpTo(EntrantCells, MaxEntrants)
    /\ entrants_list = <<>> /\ entries = 0 /\ prize_pool = 0
    /\ pos_str = Idle.pos_str /\ parsed = Idle.parsed
    /\ event_type = Idle.event_type /\ position = Idle.position /\ pts = Idle.pts
    /\ data = Idle.data /\ df = Idle.df /\ failed = Idle.failed
    /\ event_data = Idle.event_data /\ leaderboard_df = Idle.leaderboard_df

LoadEligiblePlayerNames ==
    /\ pc = "eligible_call"
    /\ LET r == load_eligible_player_names(col)
       IN  /\ entrants_list' = r.names
           /\ entries' = r.total_entries
           /\ prize_pool' = r.total_prize_fund
    /\ pc' = "eligible_return"
    /\ UNCHANGED <<pos_str, parsed, event_type, position, pts, data, df, col,
                   failed, event_data, leaderboard_df>>

NextEntrants == LoadEligiblePlayerNames

SpecEntrants == InitEntrants /\ [][NextEntrants]_vars

----------------------------------------------------------------------------
\* a row is well formed: its name is not empty after trimming and its
\* position parses
WellFormed(row) ==
    /\ Len(row) >= 2
    /\ strip(row[1]) # <<>>
    /\ parse_position(Str(row[2])) # None

RECURSIVE WellFormedResults(_)
WellFormedResults(rows) ==
    IF rows = <<>> THEN <<>>
    ELSE (IF WellFormed(Head(rows))
          THEN << [Name |-> strip(Head(rows)[1]), Position |-> strip(Head(rows)[2])] >>
          ELSE <<>>) \o WellFormedResults(Tail(rows))

NamesAndPositions(frame) ==
    [i \in DOMAIN frame |-> [Name |-> frame[i].Name, Position |-> frame[i].Position]]

IsTwoColumn(grid) == grid # <<>> /\ \A i \in DOMAIN grid : Len(grid[i]) = 2

----------------------------------------------------------------------------
Distinct(s) == \A i, j \in DOMAIN s : s[i] = s[j] => i = j

(* C10: load_eligible_player_names returns an entry count equal to the     *)
(* number of distinct names in the list it returns, a list without         *)
(* duplicates, and a prize pool of the entry count times the entry fee 20. *)
C10_EntryCount ==
    pc = "eligible_return" =>
        /\ entries = Cardinality({entrants_list[i] : i \in DOMAIN entrants_list})
        /\ Distinct(entrants_list)
        /\ prize_pool = entries * 20

----------------------------------------------------------------------------
(* The script (lines 267-271): entrants, every event's results, the        *)
(* leaderboard, its Position column.                                       *)

PlayedEvents == {EVENT_TABS[i].name : i \in 1..MaxEvents}

ScriptNames == { <<"A">>, <<" ", "B", " ">>, <<>> }
ScriptPositions == { <<"1", "s", "t">>, <<"1", "7", "t", "h">>, <<"D", "N", "F">> }
ScriptRows == {<<n, p, <<>>, <<"4", "0">> >> : n \in ScriptNames, p \in ScriptPositions}

\* the entrants column: any of the three cells present or not, in sheet order
ScriptColumns ==
    { SelectSeq(<< <<"A">>, <<"B", " ">>, <<>> >>, LAMBDA c : c \in present) :
          present \in SUBSET { <<"A">>, <<"B", " ">>, <<>> } }

\* where the result rows of a source sit: the k-th row on the sheet of the
\* at[k]-th event, sheets filled in the order of EVENT_TABS, none on a sheet
\* that fails to load
Placements(n, flaky) ==
    {a \in [1..n -> 1..MaxEvents] :
        /\ \A k \in 1..(n - 1) : a[k] <= a[k + 1]
        /\ \A k \in 1..n : EVENT_TABS[a[k]].name \notin flaky}

RECURSIVE RowsAt(_, _, _, _)
RowsAt(sheet_name, at, rows, k) ==
    IF k > Len(at) THEN <<>>
    ELSE (IF EVENT_TABS[at[k]].name = sheet_name THEN <<rows[k]>> ELSE <<>>)
         \o RowsAt(sheet_name, at, rows, k + 1)

\* what reading each worksheet does: the events in flaky raise, the others
\* return their grid (empty for an event not yet played)
SourceOf(flaky, at, rows) ==
    [sheet_name \in EventNames |->
        [raises |-> sheet_name \in flaky, grid |-> RowsAt(sheet_name, at, rows, 1)]]

Init ==
    /\ pc = "line_267"
    /\ entrants_list = <<>> /\ entries = 0 /\ prize_pool = 0
    /\ failed = {} /\ event_data = <<>> /\ leaderboard_df = <<>>
    /\ pos_str = Idle.pos_str /\ parsed = Idle.parsed
    /\ event_type = Idle.event_type /\ position = Idle.position /\ pts = Idle.pts
    /\ data = Idle.data /\ df = Idle.df /\ col = Idle.col

\* line 267
ReadEntrants ==
    /\ pc = "line_267"
    /\ \E column \in ScriptColumns :
          LET r == load_eligible_player_names(column)
          IN  /\ entrants_list' = r.names
              /\ entries' = r.total_entries
              /\ prize_pool' = r.total_prize_fund
    /\ pc' = "line_269"
    /\ UNCHANGED <<pos_str, parsed, event_type, position, pts, data, df, col,
                   failed, event_data, leaderboard_df>>

\* line 269
LoadAllEventData ==
    /\ pc = "line_269"
    /\ \E flaky \in SUBSET PlayedEvents, n \in 0..MaxRows :
          \E at \in Placements(n, flaky), rows \in [1..n -> ScriptRows] :
             LET source == SourceOf(flaky, at, rows)
             IN  /\ failed' = {e \in EventNames : source[e].raises}
                 /\ event_data' = load_all_event_data(source)
    /\ pc' = "line_270"
    /\ UNCHANGED <<pos_str, parsed, event_type, position, pts, data, df, col,
                   entrants_list, entries, prize_pool, leaderboard_df>>

\* line 270: the call returns a frame, or raises and the script stops
AggregatePoints ==
    /\ pc = "line_270"
    /\ \E outcome \in aggregate_points(event_data, entrants_list) :
          IF outcome.raised
          THEN pc' = "KeyError" /\ UNCHANGED leaderboard_df
          ELSE pc' = "line_271" /\ leaderboard_df' = outcome.frame
    /\ UNCHANGED <<pos_str, parsed, event_type, position, pts, data, df, col,
                   entrants_list, entries, prize_pool, failed, event_data>>

\* line 271
NumberPositions ==
    /\ pc = "line_271"
    /\ leaderboard_df' = with_positions(leaderboard_df)
    /\ pc' = "done"
    /\ UNCHANGED <<pos_str, parsed, event_type, position, pts, data, df, col,
                   entrants_list, entries, prize_pool, failed, event_data>>

Next == ReadEntrants \/ LoadAllEventData \/ AggregatePoints \/ NumberPositions

Spec == Init /\ [][Next]_vars

----------------------------------------------------------------------------
Returned == pc \in {"line_271", "done"}
Raised == pc = "KeyError"

\* the event data of the events that loaded, the failed ones left out
SucceedingData == [sheet_name \in EventNames \ failed |-> event_data[sheet_name]]

BreakdownSheets(frame) ==
    UNION { {frame[i].Events[j][1] : j \in DOMAIN frame[i].Events} : i \in DOMAIN frame }

\* a frame without the Position column line 271 adds
Bare(frame) ==
    [i \in DOMAIN frame |->
        [index |-> frame[i].index, Name |-> frame[i].Name, Points |-> frame[i].Points,
         Events |-> frame[i].Events]]

(* C1: whatever events fail to load, load_all_event_data returns an entry  *)
(* for every configured event, an empty result set for each failed one,    *)
(* and aggregate_points on that data ends as it would on the succeeding    *)
(* events' data alone: the same leaderboard, no breakdown entry of a       *)
(* failed event in it.                                                     *)
C1_PartialFailure ==
    /\ pc \in {"line_270", "line_271", "done", "KeyError"} =>
          /\ DOMAIN event_data = EventNames
          /\ \A sheet_name \in failed : event_data[sheet_name] = EmptyFrame
    /\ Returned =>
          /\ [raised |-> FALSE, frame |-> Bare(leaderboard_df)]
                \in aggregate_points(SucceedingData, entrants_list)
          /\ BreakdownSheets(leaderboard_df) \cap failed = {}
    /\ Raised =>
          [raised |-> TRUE, frame |-> EmptyFrame]
                \in aggregate_points(SucceedingData, entrants_list)

\* an event failed to load and the other one's results made the leaderboard
C1_Witness ==
    /\ pc = "line_271"
    /\ failed # {}
    /\ leaderboard_df # EmptyFrame

----------------------------------------------------------------------------
Passing(players, list) ==
    {i \in DOMAIN players : InList(players[i].Name, list) /\ players[i].Points > 0}

(* C3: aggregate_points never raises; when results were accumulated and no *)
(* accumulated player passes the filter, it returns an empty leaderboard.  *)
C3_NeverRaises ==
    pc \in {"line_271", "done", "KeyError"} =>
        /\ ~Raised
        /\ Passing(accumulate(event_data), entrants_list) = {}
              => leaderboard_df = EmptyFrame

----------------------------------------------------------------------------
(* C4: every row of the leaderboard names a player of the entrants list    *)
(* whose total is > 0, and every accumulated player who is in the entrants *)
(* list with a total > 0 has exactly one row, holding that total.          *)
C4_EligibleScorersOnly ==
    Returned =>
        LET players == accumulate(event_data)
        IN  /\ \A i \in DOMAIN leaderboard_df :
                  /\ InList(leaderboard_df[i].Name, entrants_list)
                  /\ leaderboard_df[i].Points > 0
            /\ \A k \in Passing(players, entrants_list) :
                  /\ Cardinality({i \in DOMAIN leaderboard_df :
                                     leaderboard_df[i].Name = players[k].Name}) = 1
                  /\ \E i \in DOMAIN leaderboard_df :
                        /\ leaderboard_df[i].Name = players[k].Name
                        /\ leaderboard_df[i].Points = players[k].Points

\* a leaderboard was returned while a player who scored was left out of it
\* for not being in the entrants list
C4_Witness ==
    /\ pc = "line_271"
    /\ leaderboard_df # EmptyFrame
    /\ LET players == accumulate(event_data)
       IN  \E k \in DOMAIN players :
              /\ players[k].Points > 0
              /\ ~InList(players[k].Name, entrants_list)
              /\ \A i \in DOMAIN leaderboard_df : leaderboard_df[i].Name # players[k].Name

----------------------------------------------------------------------------
(* C5: in the numbered leaderboard the totals do not increase from one row *)
(* to the next, and the Position of the i-th row is i, so the ranks are    *)
(* 1..n even when totals tie.                                              *)
C5_RankedDescending ==
    pc = "done" =>
        /\ \A i \in 1..(Len(leaderboard_df) - 1) :
              leaderboard_df[i].Points >= leaderboard_df[i + 1].Points
        /\ \A i \in DOMAIN leaderboard_df : leaderboard_df[i].Position = i

\* a numbered leaderboard whose first two players are tied
C5_Witness ==
    /\ pc = "done"
    /\ Len(leaderboard_df) >= 2
    /\ leaderboard_df[1].Points = leaderboard_df[2].Points
    /\ leaderboard_df[1].Position = 1 /\ leaderboard_df[2].Position = 2

----------------------------------------------------------------------------
(* C9: a result row whose name is empty after trimming is dropped: no      *)
(* accumulated player and no leaderboard row has the empty name, whatever  *)
(* the entrants list holds.                                                *)
C9_EmptyNameDropped ==
    pc \in {"line_271", "done", "KeyError"} =>
        /\ \A i \in DOMAIN leaderboard_df : leaderboard_df[i].Name # <<>>
        /\ LET players == accumulate(event_data)
           IN  \A k \in DOMAIN players : players[k].Name # <<>>

====
